---- MODULE Spec2Model ----
(***************************************************************************)
(* Model of the mRKS inversion of n2v (src/n2v/methods/rmks.py).           *)
(*                                                                         *)
(* Numbers.  Field values, matrix entries and tolerances are integers in   *)
(* fixed-point units; a floating-point quotient a / b is modelled by the   *)
(* truncating quotient a \div b.  Coordinates are integers in units of     *)
(* 0.01 bohr, so that a squared distance of 1 is the default atol = 1e-4.  *)
(* Grid points lie on the x axis, hence sqrt(R2) is an integer.            *)
(*                                                                         *)
(* External engine.  The grid (psi4 VBase), the basis values at a point    *)
(* (points_func), the reference wavefunction and the results of            *)
(* diagonalizations are data of the engine; they are enumerated from       *)
(* small sets below.  Two basis functions are active on every block.       *)
(***************************************************************************)
EXTENDS Integers, Sequences, FiniteSets, TLC

(***************************************************************************)
(* Bounds of the model.                                                    *)
(***************************************************************************)
NPts == 3          \* points of the internal DFT grid
AltNPts == 2       \* points of a user-supplied output grid
MaxBlk == 2        \* DFT_BLOCK_MAX_POINTS: largest block the engine builds
MaxIter == 2       \* largest iteration budget maxiter
FracDen == 2       \* frac_old ranges over 0/FracDen .. (FracDen-1)/FracDen
TolPos == 4        \* the positive tolerance offered to v_tol, D_tol, eig_tol
MaxCalls == 3      \* direct calls of quadrature operations on one solver

(***************************************************************************)
(* Program constants.                                                      *)
(***************************************************************************)
AtolDefault == 1               \* atol = 1e-4 in squared coordinate units
NumpyMemoryUnits == 250000000  \* numpy_memory = 2 GB in units of 8e-9 GB

\* Arrays of the model are non-empty sequences, so the empty sequence is free
\* to stand for the three non-array values a name of array type can hold.
None == <<>>                   \* Python's None in an attribute or argument
Unbound == <<>>                \* a local name that was never assigned
Scalar0 == <<>>                \* the float 0.0, which broadcasts against any array
\* grid_info=None; a given grid_info is [given |-> TRUE, blocks, npoints]
NoGrid == [given |-> FALSE, blocks |-> <<>>, npoints |-> 0]

(***************************************************************************)
(* Vector helpers (numpy arrays are sequences).                            *)
(***************************************************************************)
RECURSIVE SumFn(_, _)
SumFn(f, n) == IF n = 0 THEN 0 ELSE f[n] + SumFn(f, n - 1)

SumSeq(s) == SumFn(s, Len(s))

Zeros(n) == [i \in 1..n |-> 0]

MaxSeq(s) == CHOOSE m \in {s[i] : i \in 1..Len(s)} : \A i \in 1..Len(s) : s[i] <= m

ISqrt(n) == CHOOSE r \in 0..n : r * r <= n /\ n < (r + 1) * (r + 1)

Dot(a, b) == SumFn([i \in 1..Len(a) |-> a[i] * b[i]], Len(a))

\* phi D phi for one point: contract('pm,mn,pn->p', phi, D, phi) at p
Quad(a, D, b) ==
    SumFn([m \in 1..Len(a) |-> a[m] * Dot(D[m], b)], Len(a))

\* column i of a coefficient matrix given by rows
Col(C, i) == [m \in 1..Len(C) |-> C[m][i]]

NCols(C) == Len(C[1])

MatAdd(A, B) == [m \in 1..Len(A) |-> [n \in 1..Len(A[m]) |-> A[m][n] + B[m][n]]]

\* D = C_occ C_occ^T
DensityOf(C) ==
    [m \in 1..Len(C) |-> [n \in 1..Len(C) |-> Dot(C[m], C[n])]]

(***************************************************************************)
(* Engine data: grids.                                                     *)
(***************************************************************************)
\* point i of the internal grid: coordinates, weight, basis values PHI and
\* their x-derivative PHI_X (PHI_Y = PHI_Z = 0 on the axis)
GridPoint(i) ==
    [x |-> (i * (i - 1)) \div 2, y |-> 0, z |-> 0, w |-> i,
     phi |-> <<1, i>>, dphi |-> <<0, 1>>]

\* point j of the output grid
AltPoint(j) ==
    [x |-> 2 * j, y |-> 0, z |-> 0, w |-> 1,
     phi |-> <<1, j + 1>>, dphi |-> <<0, 1>>]

\* blocks of at most MaxBlk points; the short block comes last or first
RECURSIVE ChunkSizes(_)
ChunkSizes(n) ==
    IF n = 0 THEN <<>>
    ELSE IF n <= MaxBlk THEN <<n>>
    ELSE <<MaxBlk>> \o ChunkSizes(n - MaxBlk)

Reverse(s) == [i \in 1..Len(s) |-> s[Len(s) + 1 - i]]

RECURSIVE BlocksFrom(_, _, _)
BlocksFrom(sizes, first, alt) ==
    IF sizes = <<>> THEN <<>>
    ELSE << [k \in 1..sizes[1] |->
                IF alt THEN AltPoint(first + k - 1) ELSE GridPoint(first + k - 1)] >>
         \o BlocksFrom(Tail(sizes), first + sizes[1], alt)

\* the grids psi4.core.VBase.build may produce for the basis
InternalGrids ==
    { BlocksFrom(ChunkSizes(NPts), 1, FALSE),
      BlocksFrom(Reverse(ChunkSizes(NPts)), 1, FALSE) }

RECURSIVE CountPoints(_)
CountPoints(blocks) ==
    IF blocks = <<>> THEN 0 ELSE Len(blocks[1]) + CountPoints(Tail(blocks))

(***************************************************************************)
(* Engine data: orbital sets and wavefunctions.                            *)
(***************************************************************************)
\* results the engine's diagonalization / initial guess can return:
\* coefficient rows over the two occupied orbitals, and eigenvalues
EngineStates ==
    { [C |-> << <<4, 0>>, <<0, 4>> >>, eig |-> <<-64, -32>>],
      [C |-> << <<4, 4>>, <<0, 4>> >>, eig |-> <<-96, -32>>],
      [C |-> << <<4, 0>>, <<4, 4>> >>, eig |-> <<-64, -16>>] }

\* the density, orbitals and eigenvalues stored on the solver before mRKS
StoredState == [C |-> << <<4, 0>>, <<0, 4>> >>, eig |-> <<-64, -32>>]

\* reference wavefunction: alpha density, occupied coefficients, occupied
\* eigenvalues; for CI also the generalized-Fock and natural orbitals
RefC == << <<1, 0>>, <<0, 2>> >>
RefDa == DensityOf(RefC)
RefEps == <<-80, -48>>
RefCGFM == << <<1, 1>>, <<0, 2>> >>
RefEigGFM == <<-80, -40>>
RefCNO == << <<1, 0>>, <<1, 2>> >>
RefOccNO == <<1, 1>>

\* AO two-particle density of the CI wavefunction (get_tpdm, transformed)
Tau(m, n, u, v) == 4 * RefDa[m][n] * RefDa[u][v] - 3 * RefDa[m][u] * RefDa[n][v]

(***************************************************************************)
(* Pointwise integrands of the quadrature operations.                      *)
(***************************************************************************)
FieldUnit == 16    \* field values are held in units of 1/FieldUnit

\* rho = contract('pm,mn,pn->p', l_phi, lD, l_phi) at one point
RhoAt(D, pt) == Quad(pt.phi, D, pt.phi)

\* contract("pm,mi,ni,i,pn->p", l_phi, lC, lC, eig, l_phi) / rho at one point
EbarAt(D, C, eig, pt) ==
    SumFn([i \in 1..NCols(C) |->
              eig[i] * Dot(pt.phi, Col(C, i)) * Dot(pt.phi, Col(C, i))],
          NCols(C)) \div RhoAt(D, pt)

\* part_x[i, j] = contract('pm,mi,nj,pn->ijp', l_phi, lC, lC, l_phi_x) at p
PartX(C, pt, i, j) == Dot(pt.phi, Col(C, i)) * Dot(pt.dphi, Col(C, j))

\* taup / rho ** 2 * 0.5 with taup = sum(part1 * occ_matrix) * 0.5
PauliAt(D, C, occ, pt) ==
    LET n == NCols(C)
        part1(i, j) == (PartX(C, pt, i, j) - PartX(C, pt, j, i))
                       * (PartX(C, pt, i, j) - PartX(C, pt, j, i))
        row(i) == SumFn([j \in 1..n |-> part1(i, j) * occ[i] * occ[j]], n)
        s == SumFn([i \in 1..n |-> row(i)], n)
    IN  (FieldUnit * s) \div (4 * RhoAt(D, pt) * RhoAt(D, pt))

\* taup / rho ** 2 with taup = -sum(phi_i phi_j (part_x + part_y + part_z))
ModifiedPauliAt(D, C, occ, pt) ==
    LET n == NCols(C)
        term(i, j) == Dot(pt.phi, Col(C, i)) * Dot(pt.phi, Col(C, j))
                      * Dot(pt.dphi, Col(C, i)) * Dot(pt.dphi, Col(C, j))
        row(i) == SumFn([j \in 1..n |-> term(i, j) * occ[i] * occ[j]], n)
        s == SumFn([i \in 1..n |-> row(i)], n)
    IN  (FieldUnit * (0 - s)) \div (RhoAt(D, pt) * RhoAt(D, pt))

\* R2 = (l_x - r_x)**2 + (l_y - r_y)**2 + (l_z - r_z)**2
R2Of(p, q) ==
    (p.x - q.x) * (p.x - q.x) + (p.y - q.y) * (p.y - q.y)
    + (p.z - q.z) * (p.z - q.z)

\* mutant: np.isclose(R2, 0.0) without the tolerance passed on
IsClose0_NumpyDefault(r2, atol) == r2 <= 0

\* np.isclose(R2, 0.0, atol=atol): |R2 - 0| <= atol + rtol * |0|
IsClose0(r2, atol) == r2 <= atol

\* numerator of n_xc * rho1, per reference kind
\* RHF: -2 * contract("mu,nv,pm,pn,qu,qv->pq", lD2, lD2, ...), then *= rho1inv
\* CI : contract("mnuv,pm,pn,qu,qv->pq", Tau, ...) * rho1inv - rho2
NxcTimesRho1(name, p, q) ==
    LET D2 == MatAdd(RefDa, RefDa)
        g == Quad(p.phi, RefDa, q.phi)
        t == SumFn([m \in 1..2 |-> SumFn([n \in 1..2 |->
                 SumFn([u \in 1..2 |-> SumFn([v \in 1..2 |->
                     Tau(m, n, u, v) * p.phi[m] * p.phi[n] * q.phi[u] * q.phi[v]],
                 2)], 2)], 2)], 2)
    IN  IF name = "CIWavefunction"
        THEN t - RhoAt(D2, q) * RhoAt(D2, p)
        ELSE 0 - 2 * g * g

\* one (outer point, inner point) term of np.sum(n_xc * Rinv * r_w, axis=1):
\* R2 is set to inf where it is close to 0, so Rinv = 1 / sqrt(R2) is 0 there
KernelTerm(name, p, q, atol) ==
    IF IsClose0(R2Of(p, q), atol) THEN 0
    ELSE (FieldUnit * NxcTimesRho1(name, p, q) * q.w)
         \div (RhoAt(MatAdd(RefDa, RefDa), p) * ISqrt(R2Of(p, q)))

(***************************************************************************)
(* The integrands tabulated once over the engine's data: every orbital     *)
(* set the engine can hand to a quadrature, at every point of every grid.  *)
(* The operations below read the tables at their actual arguments.         *)
(***************************************************************************)
AllPoints ==
    {GridPoint(i) : i \in 1..NPts} \cup {AltPoint(j) : j \in 1..AltNPts}

Ones(C) == [i \in 1..NCols(C) |-> 1]

\* the (D, C, eig) triples passed to _average_local_orbital_energy
EbarInputs ==
    {<<DensityOf(s.C), s.C, s.eig>> : s \in EngineStates}
    \cup {<<RefDa, RefC, RefEps>>, <<RefDa, RefCGFM, RefEigGFM>>}

\* the (D, C, occ) triples passed to the Pauli kinetic-energy densities
PauliInputs ==
    {<<DensityOf(s.C), s.C, Ones(s.C)>> : s \in EngineStates}
    \cup {<<RefDa, RefC, Ones(RefC)>>, <<RefDa, RefCNO, RefOccNO>>}

EbarTable ==
    [a \in EbarInputs, pt \in AllPoints |-> EbarAt(a[1], a[2], a[3], pt)] @@ <<>>

PauliTable ==
    [a \in PauliInputs, pt \in AllPoints |-> PauliAt(a[1], a[2], a[3], pt)] @@ <<>>

ModifiedPauliTable ==
    [a \in PauliInputs, pt \in AllPoints |->
        ModifiedPauliAt(a[1], a[2], a[3], pt)] @@ <<>>

\* the tolerances a caller passes: none close but coincident points, the
\* default, and a wider one
AtolSet == {0, AtolDefault, 4 * AtolDefault}

KernelTable ==
    [name \in {"CIWavefunction", "RHF"}, p \in AllPoints,
     q \in {GridPoint(i) : i \in 1..NPts}, atol \in AtolSet |->
        KernelTerm(name, p, q, atol)] @@ <<>>

\* dvp_l at one outer point: the inner loop over all blocks of self.Vpot
RECURSIVE InnerSum(_, _, _, _)
InnerSum(name, p, inner, atol) ==
    IF inner = <<>> THEN 0
    ELSE SumFn([k \in 1..Len(inner[1]) |->
                   IF atol \in AtolSet THEN KernelTable[name, p, inner[1][k], atol]
                   ELSE KernelTerm(name, p, inner[1][k], atol)],
               Len(inner[1]))
         + InnerSum(name, p, Tail(inner), atol)
(***************************************************************************)
(* The block loop shared by the quadrature operations: a zero-initialised  *)
(* output of npoints entries, a running offset, one slice write per outer  *)
(* block, and the final assertion.                                         *)
(***************************************************************************)
\* out[iw:iw + n] (+)= vals with n = Len(vals), as numpy does it: the slice
\* is clipped to the array; a full slice takes the values, a clipped slice
\* takes a one-element value by broadcasting (the empty slice takes nothing)
\* and rejects any other shape
SliceWrite(acc, vals) ==
    LET n == Len(vals)
        npoints == Len(acc.out)
        hi == IF acc.iw + n <= npoints THEN acc.iw + n
              ELSE IF acc.iw <= npoints THEN npoints ELSE acc.iw
        m == hi - acc.iw
    IN  IF m = n
        THEN [acc EXCEPT
                !.out = [i \in 1..npoints |->
                            IF acc.iw < i /\ i <= hi
                            THEN acc.out[i] + vals[i - acc.iw] ELSE acc.out[i]],
                !.cover = [i \in 1..npoints |->
                            IF acc.iw < i /\ i <= hi
                            THEN acc.cover[i] + 1 ELSE acc.cover[i]],
                !.spans = Append(acc.spans, <<acc.iw, n>>),
                !.iw = acc.iw + n]
        ELSE IF n = 1
        THEN [acc EXCEPT !.spans = Append(acc.spans, <<acc.iw, 0>>),
                         !.iw = acc.iw + n]
        ELSE [acc EXCEPT !.status = "ValueError"]

\* for l_block in range(nblocks): ... ; the loop stops at the first exception
RECURSIVE BlockLoop(_, _, _)
BlockLoop(valsByBlock, b, acc) ==
    IF b > Len(valsByBlock) \/ acc.status # "running" THEN acc
    ELSE BlockLoop(valsByBlock, b + 1, SliceWrite(acc, valsByBlock[b]))

\* mutant: the final assertion left out
FinalAssert_Skipped(acc) ==
    IF acc.status # "running" THEN acc ELSE [acc EXCEPT !.status = "ok"]

\* assert iw == out.shape[0], "Somehow the whole space is not fully integrated."
FinalAssert(acc) ==
    IF acc.status # "running" THEN acc
    ELSE IF acc.iw = Len(acc.out) THEN [acc EXCEPT !.status = "ok"]
    ELSE [acc EXCEPT !.status = "AssertionError"]

\* np.zeros(npoints); iw = 0; loop; assert
Accumulate(valsByBlock, npoints) ==
    FinalAssert(BlockLoop(valsByBlock, 1,
        [status |-> "running", out |-> Zeros(npoints), cover |-> Zeros(npoints),
         spans |-> <<>>, iw |-> 0]))

\* grid_info is None: the solver's grid and npoints_DFT; else (blocks, npoints, _)
BlocksOf(grid_info, VpotBlocks) ==
    IF ~grid_info.given THEN VpotBlocks ELSE grid_info.blocks

NPointsOf(grid_info, npointsDFT) ==
    IF ~grid_info.given THEN npointsDFT ELSE grid_info.npoints

(***************************************************************************)
(* The four quadrature operations.  Each returns the record of its pass:   *)
(* status ("ok" or the exception raised), out (the array), and the         *)
(* accounting of the pass (cover, spans, iw).                              *)
(***************************************************************************)
VxcHoleQuadrature(name, grid_info, VpotBlocks, npointsDFT, atol) ==
    LET blocks == BlocksOf(grid_info, VpotBlocks)
    IN  IF name \notin {"CIWavefunction", "RHF"} /\ blocks # <<>> /\ VpotBlocks # <<>>
        THEN [status |-> "UnboundLocalError", out |-> <<>>, cover |-> <<>>,
              spans |-> <<>>, iw |-> 0]
        ELSE Accumulate(
               [b \in 1..Len(blocks) |-> [k \in 1..Len(blocks[b]) |->
                   InnerSum(name, blocks[b][k], VpotBlocks, atol)]],
               NPointsOf(grid_info, npointsDFT))

AverageLocalOrbitalEnergy(D, C, eig, grid_info, VpotBlocks, npointsDFT) ==
    LET blocks == BlocksOf(grid_info, VpotBlocks)
    IN  Accumulate(
          [b \in 1..Len(blocks) |-> [k \in 1..Len(blocks[b]) |->
              EbarTable[<<D, C, eig>>, blocks[b][k]]]],
          NPointsOf(grid_info, npointsDFT))

\* occ is None: occ = np.ones(C.shape[1])
OccOrOnes(occ, C) == IF occ = None THEN Ones(C) ELSE occ

PauliKineticEnergyDensity(D, C, occ, grid_info, VpotBlocks, npointsDFT) ==
    LET blocks == BlocksOf(grid_info, VpotBlocks)
    IN  Accumulate(
          [b \in 1..Len(blocks) |-> [k \in 1..Len(blocks[b]) |->
              PauliTable[<<D, C, OccOrOnes(occ, C)>>, blocks[b][k]]]],
          NPointsOf(grid_info, npointsDFT))

ModifiedPauliKineticEnergyDensity(D, C, occ, grid_info, VpotBlocks, npointsDFT) ==
    LET blocks == BlocksOf(grid_info, VpotBlocks)
    IN  Accumulate(
          [b \in 1..Len(blocks) |-> [k \in 1..Len(blocks[b]) |->
              ModifiedPauliTable[<<D, C, OccOrOnes(occ, C)>>, blocks[b][k]]]],
          NPointsOf(grid_info, npointsDFT))
\* mutant: the result is stored whatever grid it was computed on
HoleCall_StoresAlways(cache, name, grid_info, VpotBlocks, npointsDFT, atol) ==
    IF cache # None /\ ~grid_info.given
    THEN [status |-> "ok", out |-> cache, ran |-> FALSE, cache |-> cache,
          pass |-> None]
    ELSE LET q == VxcHoleQuadrature(name, grid_info, VpotBlocks, npointsDFT, atol)
         IN  [status |-> q.status,
              out |-> IF q.status = "ok" THEN q.out ELSE None,
              ran |-> TRUE,
              cache |-> IF q.status = "ok" THEN q.out ELSE cache,
              pass |-> q]

\* _vxc_hole_quadrature(grid_info, atol) with its cache: the stored array is
\* returned when it is set and no grid is given; otherwise the quadrature
\* runs, and its result is stored only when no grid was given.  The result
\* carries the pass (when one ran) and the cache after the call.
HoleCall(cache, name, grid_info, VpotBlocks, npointsDFT, atol) ==
    IF cache # None /\ ~grid_info.given
    THEN [status |-> "ok", out |-> cache, ran |-> FALSE, cache |-> cache,
          pass |-> None]
    ELSE LET q == VxcHoleQuadrature(name, grid_info, VpotBlocks, npointsDFT, atol)
         IN  [status |-> q.status,
              out |-> IF q.status = "ok" THEN q.out ELSE None,
              ran |-> TRUE,
              cache |-> IF q.status = "ok" /\ ~grid_info.given THEN q.out ELSE cache,
              pass |-> q]

(***************************************************************************)
(* Error norms, tolerances, mixing, assembly.                              *)
(***************************************************************************)
NormCap == 40000   \* norms stay below NormCap; keeps squares inside 32 bits

VecSub(a, b) == IF b = Scalar0 THEN a ELSE [i \in 1..Len(a) |-> a[i] - b[i]]

MatSub(A, B) ==
    IF B = Scalar0 THEN A
    ELSE [m \in 1..Len(A) |-> [n \in 1..Len(A[m]) |-> A[m][n] - B[m][n]]]

\* np.linalg.norm(v) ** 2
NormSqVec(v) == SumFn([i \in 1..Len(v) |-> v[i] * v[i]], Len(v))

NormSqMat(A) == SumFn([m \in 1..Len(A) |-> NormSqVec(A[m])], Len(A))

\* (norm / denom) < tol, for norm ** 2 = normSq and denom > 0
ErrLess(normSq, denom, tol) ==
    /\ tol > 0
    /\ \/ tol * denom > NormCap
       \/ normSq < (tol * denom) * (tol * denom)

Take(s, n) == [i \in 1..n |-> s[i]]

\* self.nalpha
Nalpha == NCols(StoredState.C)

\* vxc = vxchole + ebarKS - ebarWF + taup_rho_WF - taup_rho_KS + potential_shift
AssembleVxc(hole, eKS, eWF, tWF, tKS, potential_shift) ==
    [i \in 1..Len(hole) |->
        hole[i] + eKS[i] - eWF[i] + tWF[i] - tKS[i] + potential_shift]

\* mutant: the two weights of the mixture exchanged
LinearMix_WeightsSwapped(new, old, f) ==
    [i \in 1..Len(new) |-> (new[i] * f + old[i] * (FracDen - f)) \div FracDen]

\* vxc = vxc * (1 - frac_old) + vxc_old * frac_old, frac_old = f / FracDen
LinearMix(new, old, f) ==
    [i \in 1..Len(new) |-> (new[i] * (FracDen - f) + old[i] * f) \div FracDen]

\* if mRKS_step != 1: linear mixture
MixStep(step, new, old, f) == IF step # 1 THEN LinearMix(new, old, f) ELSE new

\* mutant: the potential error normalised by nbf instead of nbf ** 2
ConvergedByPotential_NotSquared(verrSq, n, v_tol) == ErrLess(verrSq, n, v_tol)

\* if verror < v_tol: break
ConvergedByPotential(verrSq, n, v_tol) == ErrLess(verrSq, n * n, v_tol)

\* mutant: either error below its tolerance ends the loop
ConvergedByState_Either(DerrSq, eerrSq, n, D_tol, eig_tol) ==
    ErrLess(DerrSq, n * n, D_tol) \/ ErrLess(eerrSq, Nalpha, eig_tol)

\* if (Derror < D_tol) and (eerror < eig_tol): break
ConvergedByState(DerrSq, eerrSq, n, D_tol, eig_tol) ==
    ErrLess(DerrSq, n * n, D_tol) /\ ErrLess(eerrSq, Nalpha, eig_tol)

(***************************************************************************)
(* Configuration checks and the memory check of the CI pathway.            *)
(***************************************************************************)
\* mutant: the guide-potential check left out
ConfigError_NoGuideCheck(name, r, g) ==
    IF name \notin {"CIWavefunction", "RHF"} THEN "ValueError"
    ELSE IF r # 1 THEN "ValueError"
    ELSE ""

\* the three checks at the head of mRKS; "" when all pass
ConfigError(name, r, g) ==
    IF name \notin {"CIWavefunction", "RHF"} THEN "ValueError"
    ELSE IF r # 1 THEN "ValueError"
    ELSE IF g # "hartree" THEN "ValueError"
    ELSE ""

\* I_size = (nbf ** 4) * 8.e-9 * 2, in units of 8e-9 GB
ISizeUnits(n) == n * n * n * n * 2

\* memory_footprint = I_size * 1.5, in units of 8e-9 GB
MemoryFootprintUnits(n) == (ISizeUnits(n) * 3) \div 2

\* if I_size > numpy_memory: raise
MemoryExceeded(n) == ISizeUnits(n) > NumpyMemoryUnits

\* grid_info = self.grid_to_blocks(vxc_grid): the blocks of the output grid
\* with their total point count
GridToBlocks ==
    [given |-> TRUE, blocks |-> BlocksFrom(ChunkSizes(AltNPts), 1, TRUE),
     npoints |-> AltNPts]
(***************************************************************************)
(* State.                                                                  *)
(***************************************************************************)
VARIABLES
    wfn,            \* self.wfn.name()
    ref,            \* self.ref
    guide,          \* self.guide_potential_components[0]
    nbf,            \* self.nbf
    arg,            \* arguments of mRKS: maxiter, vxc_grid, v_tol, D_tol, eig_tol, frac_old
    Da, Coca, eigvecs_a,        \* current state of the solver
    vxc_hole_WF,    \* the cached reference hole potential
    Vpot,           \* blocks of the internal grid, None before it is built
    npoints_DFT,
    shift,          \* self.shift
    pc,             \* position inside mRKS / phase of the solver
    mRKS_step,
    vxc, vxc_old, Da_old, eig_old,
    vxchole, ebarWF, taup_rho_WF, ebarKS, taup_rho_KS,
    err,            \* squared norms behind verror, Derror, eerror
    outcome,        \* "" while running, "returned", or the exception raised
    ret,            \* the returned tuple
    hist,           \* history of the run (not program state)
    last            \* the last direct call of a quadrature operation and its result

cfgVars == <<wfn, ref, guide, nbf, arg>>
solverVars == <<Da, Coca, eigvecs_a>>
gridVars == <<Vpot, npoints_DFT>>
oldVars == <<vxc_old, Da_old, eig_old>>
refVars == <<vxchole, ebarWF, taup_rho_WF>>
ksVars == <<ebarKS, taup_rho_KS, vxc, shift, err>>
vars == <<wfn, ref, guide, nbf, arg, Da, Coca, eigvecs_a, vxc_hole_WF, Vpot,
          npoints_DFT, shift, pc, mRKS_step, vxc, vxc_old, Da_old, eig_old,
          vxchole, ebarWF, taup_rho_WF, ebarKS, taup_rho_KS, err, outcome, ret,
          hist, last>>

NbfSet == {2, 100, 106}
TolSet == {0 - 1, TolPos}

Args ==
    [maxiter : 0..MaxIter, vxc_grid : BOOLEAN, v_tol : TolSet, D_tol : TolSet,
     eig_tol : TolSet, frac_old : 0..(FracDen - 1)]

Hist0 ==
    [nDiag |-> 0,          \* diagonalization requests made
     nHole |-> 0,          \* hole-potential quadrature passes run
     nQuad |-> 0,          \* other quadrature passes run
     fetched |-> FALSE,    \* two-particle tensor and integrals fetched
     cand |-> Unbound,     \* the assembled, unmixed candidate of this iteration
     handed |-> Unbound,   \* the potential last handed to the Fock build
     prevHanded |-> Unbound,   \* the one handed in the iteration before
     oldAtStart |-> Scalar0,   \* vxc_old when this iteration started
     DaAtStart |-> Scalar0,    \* solver state when this iteration started
     eigAtStart |-> Scalar0,
     stateAtStart |-> Unbound,     \* <<Da, Coca, eigvecs_a>> at that moment
     prevDaAtStart |-> Scalar0,    \* the same, one iteration earlier
     prevEigAtStart |-> Scalar0,
     mixedIn |-> 0,        \* iteration of the last mixing step
     savedIn |-> 0,        \* iteration of the last save of the old values
     diagIn |-> 0,         \* iteration of the last diagonalization request
     exit |-> "",          \* how the loop ended
     exitErr |-> [v |-> 0, D |-> 0, e |-> 0],
     calls |-> 0]

NoCall == [op |-> "", grid_info |-> NoGrid, atol |-> AtolDefault, status |-> "",
           out |-> None, ran |-> FALSE, pass |-> None, cacheBefore |-> None]

InitSolver ==
    /\ Da = DensityOf(StoredState.C)
    /\ Coca = StoredState.C
    /\ eigvecs_a = StoredState.eig
    /\ vxc_hole_WF = None
    /\ shift = 0
    /\ mRKS_step = 0
    /\ vxc = Unbound /\ vxc_old = Scalar0 /\ Da_old = Scalar0 /\ eig_old = Scalar0
    /\ vxchole = Unbound /\ ebarWF = Unbound /\ taup_rho_WF = Unbound
    /\ ebarKS = Unbound /\ taup_rho_KS = Unbound
    /\ err = [v |-> 0, D |-> 0, e |-> 0]
    /\ outcome = ""
    /\ ret = <<>>
    /\ hist = Hist0
    /\ last = NoCall

\* a solver on which mRKS is called with some arguments
Init ==
    /\ wfn \in {"CIWavefunction", "RHF", "CCEnergyWavefunction"}
    /\ ref \in {1, 2}
    /\ guide \in {"hartree", "fermi_amaldi"}
    /\ nbf \in NbfSet
    /\ arg \in Args
    /\ Vpot = None /\ npoints_DFT = 0
    /\ pc = "call"
    /\ InitSolver

Raise(e) == /\ outcome' = e
            /\ pc' = "raised"

(***************************************************************************)
(* mRKS, step by step.                                                     *)
(***************************************************************************)
\* the configuration checks
Validate ==
    /\ pc = "call"
    /\ IF ConfigError(wfn, ref, guide) # ""
       THEN Raise(ConfigError(wfn, ref, guide))
       ELSE pc' = "grid" /\ UNCHANGED outcome
    /\ UNCHANGED <<cfgVars, solverVars, vxc_hole_WF, gridVars, mRKS_step, oldVars,
                   refVars, ksVars, ret, hist, last>>

\* Preparing DFT spherical grid
BuildGrid ==
    /\ pc = "grid"
    /\ \E g \in InternalGrids :
         /\ Vpot' = g
         /\ npoints_DFT' = CountPoints(g)
    /\ pc' = "refprops"
    /\ UNCHANGED <<cfgVars, solverVars, vxc_hole_WF, mRKS_step, oldVars,
                   refVars, ksVars, outcome, ret, hist, last>>

\* Preparing for WF properties: memory check, then ebarWF and taup_rho_WF
ReferenceProperties ==
    /\ pc = "refprops"
    /\ IF wfn = "CIWavefunction" /\ MemoryExceeded(nbf)
       THEN /\ Raise("Exception")
            /\ UNCHANGED <<ebarWF, taup_rho_WF, hist>>
       ELSE LET e == IF wfn = "CIWavefunction"
                     THEN AverageLocalOrbitalEnergy(RefDa, RefCGFM, RefEigGFM,
                                                    NoGrid, Vpot, npoints_DFT)
                     ELSE AverageLocalOrbitalEnergy(RefDa, RefC, RefEps,
                                                    NoGrid, Vpot, npoints_DFT)
                t == IF wfn = "CIWavefunction"
                     THEN PauliKineticEnergyDensity(RefDa, RefCNO, RefOccNO,
                                                    NoGrid, Vpot, npoints_DFT)
                     ELSE PauliKineticEnergyDensity(RefDa, RefC, None,
                                                    NoGrid, Vpot, npoints_DFT)
            IN  /\ hist' = [hist EXCEPT !.fetched = (wfn = "CIWavefunction"),
                                        !.nQuad = @ + 2]
                /\ IF e.status # "ok" THEN Raise(e.status) /\ UNCHANGED <<ebarWF, taup_rho_WF>>
                   ELSE IF t.status # "ok"
                   THEN Raise(t.status) /\ ebarWF' = e.out /\ UNCHANGED taup_rho_WF
                   ELSE /\ ebarWF' = e.out
                        /\ taup_rho_WF' = t.out
                        /\ pc' = "hole"
                        /\ UNCHANGED outcome
    /\ UNCHANGED <<cfgVars, solverVars, vxc_hole_WF, gridVars, mRKS_step, oldVars,
                   vxchole, ksVars, ret, last>>

\* vxchole = self._vxc_hole_quadrature()
HolePotential ==
    /\ pc = "hole"
    /\ LET h == HoleCall(vxc_hole_WF, wfn, NoGrid, Vpot, npoints_DFT, AtolDefault)
       IN  /\ vxc_hole_WF' = h.cache
           /\ hist' = [hist EXCEPT !.nHole = IF h.ran THEN @ + 1 ELSE @]
           /\ IF h.status # "ok" THEN Raise(h.status) /\ UNCHANGED vxchole
              ELSE vxchole' = h.out /\ pc' = "init" /\ UNCHANGED outcome
    /\ UNCHANGED <<cfgVars, solverVars, gridVars, mRKS_step, oldVars,
                   ebarWF, taup_rho_WF, ksVars, ret, last>>

\* Initialization: a wavefunction object, "continue", or a method name run
\* through the engine; then vxc_old = Da_old = eig_old = 0.0
InitialGuess ==
    /\ pc = "init"
    /\ \E init \in {"wfn", "continue", "svwn"} :
         IF init = "continue" THEN UNCHANGED solverVars
         ELSE \E s \in EngineStates :
                /\ Da' = DensityOf(s.C)
                /\ Coca' = s.C
                /\ eigvecs_a' = s.eig
    /\ vxc_old' = Scalar0 /\ Da_old' = Scalar0 /\ eig_old' = Scalar0
    /\ mRKS_step' = 0
    /\ pc' = "loop"
    /\ UNCHANGED <<cfgVars, vxc_hole_WF, gridVars, refVars, ksVars, outcome, ret,
                   hist, last>>

\* for mRKS_step in range(1, maxiter + 1)
LoopHead ==
    /\ pc = "loop"
    /\ IF mRKS_step < arg.maxiter
       THEN /\ mRKS_step' = mRKS_step + 1
            /\ pc' = "assemble"
            /\ hist' = [hist EXCEPT !.oldAtStart = vxc_old, !.DaAtStart = Da,
                                    !.eigAtStart = Take(eigvecs_a, Nalpha),
                                    !.stateAtStart = <<Da, Coca, eigvecs_a>>,
                                    !.prevDaAtStart = hist.DaAtStart,
                                    !.prevEigAtStart = hist.eigAtStart]
       ELSE /\ pc' = "output"
            /\ hist' = [hist EXCEPT !.exit = "exhausted"]
            /\ UNCHANGED mRKS_step
    /\ UNCHANGED <<cfgVars, solverVars, vxc_hole_WF, gridVars, oldVars, refVars,
                   ksVars, outcome, ret, last>>

\* ebarKS, taup_rho_KS, potential_shift, vxc, verror
Assemble ==
    /\ pc = "assemble"
    /\ LET e == AverageLocalOrbitalEnergy(Da, Coca, Take(eigvecs_a, Nalpha),
                                          NoGrid, Vpot, npoints_DFT)
           t == PauliKineticEnergyDensity(Da, Coca, None, NoGrid, Vpot, npoints_DFT)
           emax == MaxSeq(ebarWF)
           potential_shift == emax - MaxSeq(e.out)
           v == AssembleVxc(vxchole, e.out, ebarWF, taup_rho_WF, t.out, potential_shift)
       IN  /\ hist' = [hist EXCEPT !.nQuad = @ + 2, !.cand = v]
           /\ IF e.status # "ok" \/ t.status # "ok"
              THEN /\ Raise(IF e.status # "ok" THEN e.status ELSE t.status)
                   /\ UNCHANGED ksVars
              ELSE /\ ebarKS' = e.out
                   /\ taup_rho_KS' = t.out
                   /\ shift' = potential_shift
                   /\ vxc' = v
                   /\ err' = [err EXCEPT !.v = NormSqVec(VecSub(v, vxc_old))]
                   /\ pc' = "testV"
                   /\ UNCHANGED outcome
    /\ UNCHANGED <<cfgVars, solverVars, vxc_hole_WF, gridVars, mRKS_step, oldVars,
                   refVars, ret, last>>

\* mutant: the diagonalization of the iteration requested before its
\* convergence test
TestPotential_AfterDiagonalization ==
    /\ pc = "testV"
    /\ IF ConvergedByPotential(err.v, nbf, arg.v_tol)
       THEN /\ pc' = "output"
            /\ \E s \in EngineStates :
                 /\ Da' = DensityOf(s.C)
                 /\ Coca' = s.C
                 /\ eigvecs_a' = s.eig
            /\ hist' = [hist EXCEPT !.exit = "potential", !.exitErr = err,
                                    !.nDiag = @ + 1]
            /\ UNCHANGED err
       ELSE /\ err' = [err EXCEPT
                         !.D = NormSqMat(MatSub(Da, Da_old)),
                         !.e = NormSqVec(VecSub(Take(eigvecs_a, Nalpha), eig_old))]
            /\ pc' = "testS"
            /\ UNCHANGED <<hist, solverVars>>
    /\ UNCHANGED <<cfgVars, vxc_hole_WF, gridVars, mRKS_step, oldVars,
                   refVars, ebarKS, taup_rho_KS, vxc, shift, outcome, ret, last>>

\* if verror < v_tol: break; else Derror and eerror are computed
TestPotential ==
    /\ pc = "testV"
    /\ IF ConvergedByPotential(err.v, nbf, arg.v_tol)
       THEN /\ pc' = "output"
            /\ hist' = [hist EXCEPT !.exit = "potential", !.exitErr = err]
            /\ UNCHANGED err
       ELSE /\ err' = [err EXCEPT
                         !.D = NormSqMat(MatSub(Da, Da_old)),
                         !.e = NormSqVec(VecSub(Take(eigvecs_a, Nalpha), eig_old))]
            /\ pc' = "testS"
            /\ UNCHANGED hist
    /\ UNCHANGED <<cfgVars, solverVars, vxc_hole_WF, gridVars, mRKS_step, oldVars,
                   refVars, ebarKS, taup_rho_KS, vxc, shift, outcome, ret, last>>

\* if (Derror < D_tol) and (eerror < eig_tol): break
TestState ==
    /\ pc = "testS"
    /\ IF ConvergedByState(err.D, err.e, nbf, arg.D_tol, arg.eig_tol)
       THEN /\ pc' = "output"
            /\ hist' = [hist EXCEPT !.exit = "state", !.exitErr = err]
       ELSE /\ pc' = "mix"
            /\ UNCHANGED hist
    /\ UNCHANGED <<cfgVars, solverVars, vxc_hole_WF, gridVars, mRKS_step, oldVars,
                   refVars, ksVars, outcome, ret, last>>

\* linear Mixture
Mix ==
    /\ pc = "mix"
    /\ vxc' = MixStep(mRKS_step, vxc, vxc_old, arg.frac_old)
    /\ hist' = [hist EXCEPT !.mixedIn = mRKS_step]
    /\ pc' = "save"
    /\ UNCHANGED <<cfgVars, solverVars, vxc_hole_WF, gridVars, mRKS_step, oldVars,
                   refVars, ebarKS, taup_rho_KS, shift, err, outcome, ret, last>>

\* Save old data.
SaveOld ==
    /\ pc = "save"
    /\ vxc_old' = vxc
    /\ Da_old' = Da
    /\ eig_old' = Take(eigvecs_a, Nalpha)
    /\ hist' = [hist EXCEPT !.savedIn = mRKS_step]
    /\ pc' = "diag"
    /\ UNCHANGED <<cfgVars, solverVars, vxc_hole_WF, gridVars, mRKS_step,
                   refVars, ksVars, outcome, ret, last>>

\* mutant: the old density and eigenvalues captured after the diagonalization
Diagonalize_SaveAfter ==
    /\ pc = "diag"
    /\ \E s \in EngineStates :
         /\ Da' = DensityOf(s.C)
         /\ Coca' = s.C
         /\ eigvecs_a' = s.eig
         /\ Da_old' = DensityOf(s.C)
         /\ eig_old' = Take(s.eig, Nalpha)
    /\ hist' = [hist EXCEPT !.nDiag = @ + 1, !.diagIn = mRKS_step,
                            !.handed = vxc, !.prevHanded = hist.handed]
    /\ IF ref = 1 THEN pc' = "loop" /\ UNCHANGED outcome
       ELSE Raise("ValueError")
    /\ UNCHANGED <<cfgVars, vxc_hole_WF, gridVars, mRKS_step, vxc_old,
                   refVars, ksVars, ret, last>>

\* vxc_Fock = self.dft_grid_to_fock(vxc, self.Vpot);
\* self._diagonalize_with_potential_mRKS(v=vxc_Fock)
Diagonalize ==
    /\ pc = "diag"
    /\ \E s \in EngineStates :
         /\ Da' = DensityOf(s.C)
         /\ Coca' = s.C
         /\ eigvecs_a' = s.eig
    /\ hist' = [hist EXCEPT !.nDiag = @ + 1, !.diagIn = mRKS_step,
                            !.handed = vxc, !.prevHanded = hist.handed]
    /\ IF ref = 1 THEN pc' = "loop" /\ UNCHANGED outcome
       ELSE Raise("ValueError")
    /\ UNCHANGED <<cfgVars, vxc_hole_WF, gridVars, mRKS_step, oldVars,
                   refVars, ksVars, ret, last>>
\* after the loop: with an output grid every field is evaluated again on it
Output ==
    /\ pc = "output"
    /\ IF arg.vxc_grid
       THEN LET grid_info == GridToBlocks
                h == HoleCall(vxc_hole_WF, wfn, grid_info, Vpot, npoints_DFT,
                              AtolDefault)
                eW == IF wfn = "CIWavefunction"
                      THEN AverageLocalOrbitalEnergy(RefDa, RefCGFM, RefEigGFM,
                                                     grid_info, Vpot, npoints_DFT)
                      ELSE AverageLocalOrbitalEnergy(RefDa, RefC, Take(RefEps, Nalpha),
                                                     grid_info, Vpot, npoints_DFT)
                tW == IF wfn = "CIWavefunction"
                      THEN PauliKineticEnergyDensity(RefDa, RefCNO, RefOccNO,
                                                     grid_info, Vpot, npoints_DFT)
                      ELSE PauliKineticEnergyDensity(RefDa, RefC, None,
                                                     grid_info, Vpot, npoints_DFT)
                eK == AverageLocalOrbitalEnergy(Da, Coca, Take(eigvecs_a, Nalpha),
                                                grid_info, Vpot, npoints_DFT)
                tK == PauliKineticEnergyDensity(Da, Coca, None, grid_info, Vpot,
                                                npoints_DFT)
                potential_shift == MaxSeq(eW.out) - MaxSeq(eK.out)
                bad == {r \in {h, eW, tW, eK, tK} : r.status # "ok"}
            IN  /\ vxc_hole_WF' = h.cache
                /\ hist' = [hist EXCEPT !.nHole = @ + 1, !.nQuad = @ + 4]
                /\ IF bad # {}
                   THEN /\ Raise((CHOOSE r \in bad : TRUE).status)
                        /\ UNCHANGED <<refVars, ksVars>>
                   ELSE /\ vxchole' = h.out
                        /\ ebarWF' = eW.out
                        /\ taup_rho_WF' = tW.out
                        /\ ebarKS' = eK.out
                        /\ taup_rho_KS' = tK.out
                        /\ shift' = potential_shift
                        /\ vxc' = AssembleVxc(h.out, eK.out, eW.out, tW.out, tK.out,
                                              potential_shift)
                        /\ UNCHANGED err
                        /\ pc' = "return"
                        /\ UNCHANGED outcome
       ELSE /\ pc' = "return"
            /\ UNCHANGED <<vxc_hole_WF, refVars, ksVars, outcome, hist>>
    /\ UNCHANGED <<cfgVars, solverVars, gridVars, mRKS_step, oldVars, ret, last>>

\* return vxc, vxchole, ebarKS, ebarWF, taup_rho_WF, taup_rho_KS
Return ==
    /\ pc = "return"
    /\ IF Unbound \in {vxc, vxchole, ebarKS, ebarWF, taup_rho_WF, taup_rho_KS}
       THEN Raise("UnboundLocalError") /\ UNCHANGED ret
       ELSE /\ ret' = <<vxc, vxchole, ebarKS, ebarWF, taup_rho_WF, taup_rho_KS>>
            /\ outcome' = "returned"
            /\ pc' = "done"
    /\ UNCHANGED <<cfgVars, solverVars, vxc_hole_WF, gridVars, mRKS_step, oldVars,
                   refVars, ksVars, hist, last>>

Next ==
    \/ Validate
    \/ BuildGrid
    \/ ReferenceProperties
    \/ HolePotential
    \/ InitialGuess
    \/ LoopHead
    \/ Assemble
    \/ TestPotential
    \/ TestState
    \/ Mix
    \/ SaveOld
    \/ Diagonalize
    \/ Output
    \/ Return

Spec == Init /\ [][Next]_vars

(***************************************************************************)
(* Direct calls of the quadrature operations on one solver whose grid is   *)
(* built: any operation, on the internal grid or on a caller's grid_info.  *)
(***************************************************************************)
\* blockings of a caller's grid: engine-sized blocks, or one point per block
AltBlockings ==
    { BlocksFrom(ChunkSizes(AltNPts), 1, TRUE),
      BlocksFrom(Reverse(ChunkSizes(AltNPts)), 1, TRUE),
      BlocksFrom([i \in 1..AltNPts |-> 1], 1, TRUE) }

\* the grid_info values a caller may pass; npoints may disagree with the blocks
GridInfos ==
    {NoGrid} \cup
    { [given |-> TRUE, blocks |-> b, npoints |-> n] :
        b \in AltBlockings, n \in (AltNPts - 1)..(AltNPts + 1) }

InitQuad ==
    /\ wfn \in {"CIWavefunction", "RHF"}
    /\ ref = 1
    /\ guide = "hartree"
    /\ nbf = 2
    /\ arg = [maxiter |-> 0, vxc_grid |-> FALSE, v_tol |-> TolPos, D_tol |-> TolPos,
              eig_tol |-> TolPos, frac_old |-> 0]
    /\ Vpot \in InternalGrids
    /\ npoints_DFT = CountPoints(Vpot)
    /\ pc = "idle"
    /\ InitSolver

quadFrame == <<cfgVars, solverVars, gridVars, shift, pc, mRKS_step, vxc, oldVars,
               refVars, ebarKS, taup_rho_KS, err, outcome, ret>>

CallHole ==
    /\ pc = "idle" /\ hist.calls < MaxCalls
    /\ \E gi \in GridInfos, atol \in AtolSet :
         LET h == HoleCall(vxc_hole_WF, wfn, gi, Vpot, npoints_DFT, atol)
         IN  /\ vxc_hole_WF' = h.cache
             /\ last' = [op |-> "hole", grid_info |-> gi, atol |-> atol,
                         status |-> h.status,
                         out |-> h.out, ran |-> h.ran, pass |-> h.pass,
                         cacheBefore |-> vxc_hole_WF]
             /\ hist' = [hist EXCEPT !.calls = @ + 1,
                                     !.nHole = IF h.ran THEN @ + 1 ELSE @]
    /\ UNCHANGED quadFrame

CallResult(op, gi, r) ==
    [op |-> op, grid_info |-> gi, atol |-> AtolDefault, status |-> r.status,
     out |-> IF r.status = "ok" THEN r.out ELSE None,
     ran |-> TRUE, pass |-> r, cacheBefore |-> vxc_hole_WF]

CallAverageLocalOrbitalEnergy ==
    /\ pc = "idle" /\ hist.calls < MaxCalls
    /\ \E gi \in GridInfos, s \in EngineStates :
         last' = CallResult("ebar", gi,
                    AverageLocalOrbitalEnergy(DensityOf(s.C), s.C, s.eig, gi, Vpot,
                                              npoints_DFT))
    /\ hist' = [hist EXCEPT !.calls = @ + 1, !.nQuad = @ + 1]
    /\ UNCHANGED <<quadFrame, vxc_hole_WF>>

CallPauliKineticEnergyDensity ==
    /\ pc = "idle" /\ hist.calls < MaxCalls
    /\ \E gi \in GridInfos, s \in EngineStates :
         last' = CallResult("pauli", gi,
                    PauliKineticEnergyDensity(DensityOf(s.C), s.C, None, gi, Vpot,
                                              npoints_DFT))
    /\ hist' = [hist EXCEPT !.calls = @ + 1, !.nQuad = @ + 1]
    /\ UNCHANGED <<quadFrame, vxc_hole_WF>>

CallModifiedPauliKineticEnergyDensity ==
    /\ pc = "idle" /\ hist.calls < MaxCalls
    /\ \E gi \in GridInfos, s \in EngineStates :
         last' = CallResult("mpauli", gi,
                    ModifiedPauliKineticEnergyDensity(DensityOf(s.C), s.C, None, gi,
                                                      Vpot, npoints_DFT))
    /\ hist' = [hist EXCEPT !.calls = @ + 1, !.nQuad = @ + 1]
    /\ UNCHANGED <<quadFrame, vxc_hole_WF>>

NextQuad ==
    \/ CallHole
    \/ CallAverageLocalOrbitalEnergy
    \/ CallPauliKineticEnergyDensity
    \/ CallModifiedPauliKineticEnergyDensity

SpecQuad == InitQuad /\ [][NextQuad]_vars
(***************************************************************************)
(* The assembly of the potential in floating point.  The fields are numpy  *)
(* float arrays: every subtraction and addition rounds its result to the   *)
(* nearest representable number, ties to even.  A small binary format      *)
(* with FloatBits significant bits stands for the 53 of a double.          *)
(***************************************************************************)
FloatBits == 3

\* the spacing of the representable numbers around magnitude m
RECURSIVE Quantum(_)
Quantum(m) == IF m < 2 ^ FloatBits THEN 1 ELSE 2 * Quantum(m \div 2)

\* the representable number nearest to n, ties to the even significand
Float(n) ==
    LET m == IF n < 0 THEN 0 - n ELSE n
        q == Quantum(m)
        lo == (m \div q) * q
        r == m - lo
        up == IF 2 * r > q \/ (2 * r = q /\ (lo \div q) % 2 = 1) THEN lo + q ELSE lo
    IN  IF n < 0 THEN 0 - up ELSE up

FloatAdd(a, b) == Float(a + b)
FloatSub(a, b) == Float(a - b)

\* mutant: the shift taken with the opposite sign
PotentialShift_Reversed(eWF, eKS) == FloatSub(MaxSeq(eKS), MaxSeq(eWF))

\* potential_shift = emax - np.max(ebarKS), emax = np.max(ebarWF);
\* potential_shift = np.max(ebarWF) - np.max(ebarKS)
PotentialShift(eWF, eKS) == FloatSub(MaxSeq(eWF), MaxSeq(eKS))

\* vxc = vxchole + ebarKS - ebarWF + taup_rho_WF - taup_rho_KS + potential_shift,
\* evaluated left to right, element by element
AssembleVxcFloat(hole, eKS, eWF, tWF, tKS, potential_shift) ==
    [i \in 1..Len(hole) |->
        FloatAdd(FloatSub(FloatAdd(FloatSub(FloatAdd(hole[i], eKS[i]), eWF[i]),
                                   tWF[i]), tKS[i]), potential_shift)]

\* orbital-energy averages of very different magnitude and of like magnitude
EbarSamples == {0 - 1, 0 - 3, 0 - (2 ^ FloatBits + 2)}
EbarFields == {<<a, b>> : a, b \in EbarSamples}
HoleFields == {<<0 - 2, 0 - 5>>, <<0 - 1, 0 - 1>>}
TauFields == {<<0, 2>>, <<3, 1>>}

\* the fields of one evaluation on a grid
FieldSets ==
    [hole : HoleFields, eKS : EbarFields, eWF : EbarFields,
     tWF : TauFields, tKS : TauFields]

\* a solver inside mRKS with the five fields evaluated on the internal grid
InitAssemble ==
    /\ wfn \in {"CIWavefunction", "RHF"}
    /\ ref = 1
    /\ guide = "hartree"
    /\ nbf = 2
    /\ arg \in {a \in Args : a.maxiter = 1 /\ a.v_tol = TolPos /\ a.D_tol = TolPos
                             /\ a.eig_tol = TolPos /\ a.frac_old = 0}
    /\ Vpot \in InternalGrids
    /\ npoints_DFT = CountPoints(Vpot)
    /\ Da = DensityOf(StoredState.C)
    /\ Coca = StoredState.C
    /\ eigvecs_a = StoredState.eig
    /\ vxc_hole_WF = None
    /\ shift = 0
    /\ mRKS_step = 1
    /\ vxc = Unbound /\ vxc_old = Scalar0 /\ Da_old = Scalar0 /\ eig_old = Scalar0
    /\ \E f \in FieldSets :
         /\ vxchole = f.hole /\ ebarKS = f.eKS /\ ebarWF = f.eWF
         /\ taup_rho_WF = f.tWF /\ taup_rho_KS = f.tKS
    /\ err = [v |-> 0, D |-> 0, e |-> 0]
    /\ outcome = ""
    /\ ret = <<>>
    /\ hist = Hist0
    /\ last = NoCall
    /\ pc = "fields"

assembleFrame == <<cfgVars, solverVars, vxc_hole_WF, gridVars, mRKS_step, oldVars,
                   err, outcome, ret, hist>>

\* the assembly inside the loop, from the fields on the internal grid
AssembleInLoop ==
    /\ pc = "fields"
    /\ LET potential_shift == PotentialShift(ebarWF, ebarKS)
       IN  /\ shift' = potential_shift
           /\ vxc' = AssembleVxcFloat(vxchole, ebarKS, ebarWF, taup_rho_WF,
                                      taup_rho_KS, potential_shift)
    /\ last' = [op |-> "loop",
                inputs |-> [hole |-> vxchole, eKS |-> ebarKS, eWF |-> ebarWF,
                            tWF |-> taup_rho_WF, tKS |-> taup_rho_KS]]
    /\ pc' = "assembled"
    /\ UNCHANGED <<assembleFrame, refVars, ebarKS, taup_rho_KS>>

\* the assembly after the loop, from the fields evaluated again on the
\* output grid
AssembleOnOutputGrid ==
    /\ pc = "assembled" /\ arg.vxc_grid
    /\ \E f \in FieldSets :
         LET potential_shift == PotentialShift(f.eWF, f.eKS)
         IN  /\ vxchole' = f.hole /\ ebarKS' = f.eKS /\ ebarWF' = f.eWF
             /\ taup_rho_WF' = f.tWF /\ taup_rho_KS' = f.tKS
             /\ shift' = potential_shift
             /\ vxc' = AssembleVxcFloat(f.hole, f.eKS, f.eWF, f.tWF, f.tKS,
                                        potential_shift)
             /\ last' = [op |-> "output", inputs |-> f]
    /\ pc' = "reassembled"
    /\ UNCHANGED assembleFrame

NextAssemble ==
    \/ AssembleInLoop
    \/ AssembleOnOutputGrid

SpecAssemble == InitAssemble /\ [][NextAssemble]_vars
(***************************************************************************)
(* Claims.                                                                 *)
(***************************************************************************)
\* the three error measures of the current iteration against tolerances,
\* written out from the solver state
VErrBelow == ErrLess(err.v, nbf * nbf, arg.v_tol)
DErrBelow == ErrLess(NormSqMat(MatSub(hist.DaAtStart, hist.prevDaAtStart)),
                     nbf * nbf, arg.D_tol)
EErrBelow == ErrLess(NormSqVec(VecSub(hist.eigAtStart, hist.prevEigAtStart)),
                     Nalpha, arg.eig_tol)

\* the iteration mRKS_step has mixed, saved or requested a diagonalization
IterationWentOn ==
    mRKS_step >= 1 /\ mRKS_step \in {hist.mixedIn, hist.savedIn, hist.diagIn}

LoopOver == pc \in {"output", "return", "done", "raised"}

\* C1: in every iteration the potential error is tested first; when it is
\* below v_tol the loop ends in that iteration whatever the density and
\* eigenvalue errors are, with no mixing, no save of old values and no
\* diagonalization request in that iteration.
C1_PotentialTestedFirst ==
    /\ pc \in {"testS", "mix", "save", "diag"} => ~VErrBelow
    /\ IterationWentOn => ~VErrBelow
    /\ hist.exit = "state" => ~VErrBelow
    /\ pc = "testV" => err.v = NormSqVec(VecSub(vxc, vxc_old))
    /\ hist.exit = "potential" =>
         /\ VErrBelow
         /\ LoopOver
         /\ ~IterationWentOn
         /\ hist.nDiag = mRKS_step - 1
         /\ vxc_old = hist.oldAtStart

\* C1 witness: the loop ended by the potential test in an iteration whose
\* density and eigenvalue errors are both at or above positive tolerances
C1_Witness ==
    /\ hist.exit = "potential"
    /\ mRKS_step >= 2
    /\ arg.D_tol > 0 /\ arg.eig_tol > 0
    /\ ~DErrBelow /\ ~EErrBelow

\* C2: in an iteration whose potential error is not below v_tol the loop
\* ends if and only if the density error is below D_tol and the eigenvalue
\* error is below eig_tol; otherwise the iteration goes on to mixing and
\* diagonalization.
C2_StateConvergence ==
    /\ hist.exit = "state" => ~VErrBelow /\ DErrBelow /\ EErrBelow /\ LoopOver
                              /\ ~IterationWentOn
    /\ pc \in {"mix", "save", "diag"} \/ IterationWentOn =>
         ~VErrBelow /\ ~(DErrBelow /\ EErrBelow)
    /\ pc = "testS" =>
         /\ err.D = NormSqMat(MatSub(Da, Da_old))
         /\ err.e = NormSqVec(VecSub(Take(eigvecs_a, Nalpha), eig_old))
         /\ mRKS_step >= 2 => Da_old = hist.prevDaAtStart /\ eig_old = hist.prevEigAtStart
         /\ Da = hist.DaAtStart

\* C2 witness: exactly one of the two state errors is below its (positive)
\* tolerance and the iteration has gone on to its diagonalization
C2_Witness ==
    /\ hist.diagIn = mRKS_step /\ mRKS_step >= 1
    /\ arg.D_tol > 0 /\ arg.eig_tol > 0
    /\ DErrBelow # EErrBelow

Finished == pc \in {"done", "raised"}
ConfigPassed == ConfigError(wfn, ref, guide) = ""
NoTolerance == arg.v_tol < 0 /\ arg.D_tol < 0 /\ arg.eig_tol < 0

\* C3: with v_tol, D_tol and eig_tol all negative, for any maxiter the
\* driver leaves the loop only by exhausting maxiter, has then made exactly
\* maxiter diagonalization requests, and returns without raising.
C3_ExhaustionReturns ==
    (NoTolerance /\ ConfigPassed /\ ~(wfn = "CIWavefunction" /\ MemoryExceeded(nbf))) =>
        /\ hist.exit \in {"", "exhausted"}
        /\ hist.nDiag <= arg.maxiter
        /\ hist.exit = "exhausted" => hist.nDiag = arg.maxiter
        /\ Finished => outcome = "returned" /\ hist.nDiag = arg.maxiter

\* the length every returned field must have
ExpectedLength == IF arg.vxc_grid THEN GridToBlocks.npoints ELSE npoints_DFT

\* C4: on every path by which mRKS finishes after the loop (converged by
\* potential, converged by state, maxiter >= 0 exhausted), with or without
\* an output grid, it returns without an exception six defined fields, all
\* of the length of the grid they are evaluated on.
C4_SixFieldsReturned ==
    (Finished /\ hist.exit # "") =>
        /\ outcome = "returned"
        /\ Len(ret) = 6
        /\ \A i \in 1..6 : ret[i] # Unbound /\ Len(ret[i]) = ExpectedLength

\* the mixture of the candidate with the potential the iteration started with
MixtureOfCandidate ==
    [i \in 1..Len(hist.cand) |->
        (hist.cand[i] * (FracDen - arg.frac_old) + hist.oldAtStart[i] * arg.frac_old)
            \div FracDen]

C6_OldCapturedBeforeDiagonalization ==
    /\ (hist.savedIn = mRKS_step /\ mRKS_step >= 1) =>
         Da_old = hist.DaAtStart /\ eig_old = hist.eigAtStart
    /\ (mRKS_step >= 2 /\ hist.savedIn = mRKS_step - 1) =>
         /\ Da_old = hist.prevDaAtStart /\ eig_old = hist.prevEigAtStart
         /\ pc = "testS" =>
              /\ err.D = NormSqMat(MatSub(hist.DaAtStart, hist.prevDaAtStart))
              /\ err.e = NormSqVec(VecSub(hist.eigAtStart, hist.prevEigAtStart))

\* C6 witness: after a diagonalization that changed the density, the old
\* density is the one from the start of the iteration
C6_Witness ==
    /\ hist.diagIn = mRKS_step /\ mRKS_step >= 1 /\ pc = "loop"
    /\ Da # hist.DaAtStart
    /\ Da_old = hist.DaAtStart

\* C7: with an unsupported wavefunction kind, ref # 1 or a first guide
\* component other than "hartree", mRKS raises a configuration error before
\* anything else: no grid, no quadrature, no diagonalization, and density,
\* coefficients, eigenvalues and cached hole potential as they were.
C7_ConfigurationErrorsFirst ==
    ~(wfn \in {"CIWavefunction", "RHF"} /\ ref = 1 /\ guide = "hartree") =>
        /\ pc \in {"call", "raised"}
        /\ pc = "raised" => outcome = "ValueError"
        /\ Vpot = None /\ npoints_DFT = 0
        /\ hist.nQuad = 0 /\ hist.nHole = 0 /\ hist.nDiag = 0 /\ ~hist.fetched
        /\ mRKS_step = 0
        /\ Da = DensityOf(StoredState.C) /\ Coca = StoredState.C
        /\ eigvecs_a = StoredState.eig
        /\ vxc_hole_WF = None

\* C7 witness: a supported, restricted reference with another guide
\* potential has been rejected
C7_Witness ==
    /\ pc = "raised" /\ outcome = "ValueError"
    /\ wfn = "RHF" /\ ref = 1 /\ guide # "hartree"

\* C8: for a CIWavefunction reference, a reported memory footprint above the
\* budget makes mRKS raise before the two-particle tensor and the integrals
\* are fetched and before any iteration; when it has not raised, the
\* footprint is within the budget.
C8_MemoryBudget ==
    (wfn = "CIWavefunction" /\ ConfigPassed
       /\ MemoryFootprintUnits(nbf) > NumpyMemoryUnits) =>
        /\ ~hist.fetched
        /\ mRKS_step = 0
        /\ pc \in {"call", "grid", "refprops", "raised"}
        /\ pc = "raised" => outcome = "Exception"

\* C9: over any sequence of calls on one solver the cached hole potential is
\* written once and read many times: a call without a grid computes and
\* stores it when the cache is unset, and returns the stored array without
\* a quadrature pass when it is set; a call with a grid always runs the
\* quadrature, returns its fresh result and leaves the cache as it was; no
\* other operation touches the cache.
C9_HoleCacheWriteOnce ==
    /\ last.op \in {"ebar", "pauli", "mpauli"} => vxc_hole_WF = last.cacheBefore
    /\ last.op = "hole" =>
         /\ (~last.grid_info.given /\ last.cacheBefore # None) =>
              /\ ~last.ran
              /\ last.status = "ok"
              /\ last.out = last.cacheBefore
              /\ vxc_hole_WF = last.cacheBefore
         /\ (~last.grid_info.given /\ last.cacheBefore = None) =>
              /\ last.ran
              /\ last.status = "ok"
              /\ last.out = last.pass.out /\ Len(last.out) = npoints_DFT
              /\ vxc_hole_WF = last.out
         /\ last.grid_info.given =>
              /\ last.ran
              /\ vxc_hole_WF = last.cacheBefore
              /\ last.status = "ok" =>
                   /\ last.out = last.pass.out
                   /\ Len(last.out) = last.grid_info.npoints
    /\ last.cacheBefore # None => vxc_hole_WF = last.cacheBefore
    /\ hist.nHole > 0 /\ vxc_hole_WF = None => last.cacheBefore = None

\* C9 witness: a call without a grid answered from the cache after two
\* quadrature passes, one of them on an alternate grid
C9_Witness ==
    /\ last.op = "hole" /\ ~last.grid_info.given
    /\ last.cacheBefore # None /\ ~last.ran
    /\ hist.nHole >= 2

\* the blocks the last call went over, the offset block b must start at,
\* and the output length the call allocated
LastBlocks == BlocksOf(last.grid_info, Vpot)
OffsetOf(b) == SumFn([j \in 1..(b - 1) |-> Len(LastBlocks[j])], b - 1)
LastNPoints == NPointsOf(last.grid_info, npoints_DFT)

\* C10: in each of the four quadrature operations, on the internal or an
\* alternate grid, the blocks are visited in index order and block b writes
\* the positions from the sum of the sizes of the blocks before it; a pass
\* that returns has written every output point exactly once and its offset
\* equals the output length; a pass that ends with another offset fails
\* with the assertion, and no failed pass returns an array.
C10_PointAccounting ==
    last.ran =>
        /\ last.op \in {"hole", "ebar", "pauli", "mpauli"}
        /\ last.status \in {"ok", "AssertionError", "ValueError"}
        /\ Len(last.pass.out) = LastNPoints
        /\ Len(last.pass.spans) <= Len(LastBlocks)
        /\ \A b \in 1..Len(last.pass.spans) :
             /\ last.pass.spans[b][1] = OffsetOf(b)
             /\ last.pass.spans[b][2] \in {0, Len(LastBlocks[b])}
             /\ last.pass.spans[b][2] = 0 =>
                  OffsetOf(b) + Len(LastBlocks[b]) > LastNPoints
        /\ last.status = "ok" =>
             /\ Len(last.pass.spans) = Len(LastBlocks)
             /\ last.pass.iw = LastNPoints
             /\ CountPoints(LastBlocks) = LastNPoints
             /\ \A i \in 1..LastNPoints : last.pass.cover[i] = 1
             /\ \A b \in 1..Len(LastBlocks) :
                  last.pass.spans[b][2] = Len(LastBlocks[b])
             /\ last.out = last.pass.out
        /\ (Len(last.pass.spans) = Len(LastBlocks) /\ last.pass.iw # LastNPoints) =>
             last.status = "AssertionError"
        /\ last.status = "AssertionError" =>
             Len(last.pass.spans) = Len(LastBlocks) /\ last.pass.iw # LastNPoints
        /\ last.status # "ok" => last.out = None /\ vxc_hole_WF = last.cacheBefore
        /\ ~last.grid_info.given => last.status = "ok"

\* C10 witness: a pass over all the blocks of an alternate grid ended with
\* an offset other than the output length and failed with the assertion
C10_Witness ==
    /\ last.ran /\ last.grid_info.given
    /\ last.status = "AssertionError"
    /\ Len(last.pass.spans) >= 2
    /\ last.pass.iw # LastNPoints

Assembled == pc \in {"assembled", "reassembled"}

\* the sum of the claim at point i, term by term in the order of the code
SumAt(i) ==
    Float(Float(Float(Float(Float(vxchole[i] + ebarKS[i]) - ebarWF[i])
                      + taup_rho_WF[i]) - taup_rho_KS[i]) + shift)

\* the assembly took the fields as they are and left them as they were
InputsKept ==
    /\ last.inputs.hole = vxchole /\ last.inputs.eKS = ebarKS
    /\ last.inputs.eWF = ebarWF /\ last.inputs.tWF = taup_rho_WF
    /\ last.inputs.tKS = taup_rho_KS

\* the assembly and the stored shift, on either code path
AssemblyAsStated ==
    /\ InputsKept
    /\ Len(vxc) = Len(vxchole)
    /\ \A i \in 1..Len(vxc) : vxc[i] = SumAt(i)
    /\ shift = Float(MaxSeq(ebarWF) - MaxSeq(ebarKS))
    /\ (MaxSeq(ebarWF) = MaxSeq(ebarKS)) => shift = 0

DifferenceRepresentable ==
    Float(MaxSeq(ebarWF) - MaxSeq(ebarKS)) = MaxSeq(ebarWF) - MaxSeq(ebarKS)

RECURSIVE PointsOf(_)
PointsOf(blocks) == IF blocks = <<>> THEN <<>> ELSE blocks[1] \o PointsOf(Tail(blocks))

\* what the pair (outer point p, inner point q) adds to the sum at p when the
\* tolerance is atol: nothing within the tolerance, else
\* pair term * weight / distance
PairContribution(p, q, atol) ==
    LET r2 == (p.x - q.x) ^ 2 + (p.y - q.y) ^ 2 + (p.z - q.z) ^ 2
    IN  IF r2 <= atol THEN 0
        ELSE (FieldUnit * NxcTimesRho1(wfn, p, q) * q.w)
             \div (RhoAt(MatAdd(RefDa, RefDa), p) * ISqrt(r2))

\* the last call was a hole-potential quadrature that ran to its end
HolePassDone == last.op = "hole" /\ last.ran /\ last.status = "ok"

\* C12: in the hole-potential quadrature every pair of an outer and an
\* inner point whose squared distance is within atol of zero adds exactly
\* zero to the sum at the outer point, and every other pair adds
\* pair term * weight / distance; the sum at each outer point is the sum of
\* these over all inner points of the solver's grid.
C12_DegeneracyGuard ==
    HolePassDone =>
        LET outer == PointsOf(LastBlocks)
            inner == PointsOf(Vpot)
        IN  /\ Len(last.out) = Len(outer)
            /\ \A k \in 1..Len(outer) :
                 last.out[k] =
                   SumFn([j \in 1..Len(inner) |->
                            PairContribution(outer[k], inner[j], last.atol)],
                         Len(inner))

\* C12 witness: a pass at the default tolerance in which an outer point has
\* a coincident inner point, a distinct inner point within the tolerance and
\* an inner point beyond it that adds a nonzero term
C12_Witness ==
    /\ HolePassDone /\ last.atol = AtolDefault
    /\ \E p \in {LastBlocks[b][k] : b \in {1}, k \in 1..Len(LastBlocks[1])} :
         /\ \E q \in {GridPoint(i) : i \in 1..NPts} : R2Of(p, q) = 0
         /\ \E q \in {GridPoint(i) : i \in 1..NPts} :
              R2Of(p, q) > 0 /\ R2Of(p, q) <= AtolDefault
              /\ NxcTimesRho1(wfn, p, q) # 0
         /\ \E q \in {GridPoint(i) : i \in 1..NPts} :
              R2Of(p, q) > AtolDefault /\ PairContribution(p, q, AtolDefault) # 0

Converged == hist.exit \in {"potential", "state"}

\* C13: at the convergence test of iteration k exactly k-1 diagonalization
\* requests have been made; after a convergence in iteration k the density,
\* occupied coefficients and eigenvalues stay as they were at the test, and
\* without an output grid the returned current-state fields are those
\* computed from the solver state held at return.
C13_ReturnedFieldsMatchState ==
    /\ pc \in {"testV", "testS"} =>
         /\ hist.nDiag = mRKS_step - 1
         /\ <<Da, Coca, eigvecs_a>> = hist.stateAtStart
    /\ Converged =>
         /\ hist.nDiag = mRKS_step - 1
         /\ <<Da, Coca, eigvecs_a>> = hist.stateAtStart
         /\ (outcome = "returned" /\ ~arg.vxc_grid) =>
              LET e == AverageLocalOrbitalEnergy(Da, Coca, Take(eigvecs_a, Nalpha),
                                                 NoGrid, Vpot, npoints_DFT)
                  t == PauliKineticEnergyDensity(Da, Coca, None, NoGrid, Vpot,
                                                 npoints_DFT)
              IN  /\ ret[3] = e.out
                  /\ ret[6] = t.out
                  /\ shift = MaxSeq(ret[4]) - MaxSeq(e.out)
                  /\ \A i \in 1..npoints_DFT :
                       ret[1][i] = ret[2][i] + e.out[i] - ret[4][i] + ret[5][i]
                                   - t.out[i] + shift

\* C13 witness: a run that converged in a later iteration, after a
\* diagonalization had changed the stored state, and returned the fields of
\* the internal grid
C13_Witness ==
    /\ Converged /\ outcome = "returned" /\ ~arg.vxc_grid
    /\ mRKS_step >= 2 /\ hist.nDiag = mRKS_step - 1
    /\ Da # DensityOf(StoredState.C)
====
